---- MODULE Spec2Model ----
(***************************************************************************)
(* Model of prepona's edge types (graph/edge/default_edge.rs,              *)
(* graph/edge/flow_edge.rs) and of the Subgraph view                       *)
(* (graph/subgraph/mod.rs).                                                *)
(*                                                                         *)
(* usize and isize are modelled with WordBits bits: usize is               *)
(* 0 .. 2^WordBits - 1, isize is -2^(WordBits-1) .. 2^(WordBits-1) - 1 and *)
(* `x as isize` wraps as the two's complement cast does.                   *)
(***************************************************************************)
EXTENDS Integers, Sequences, FiniteSets, TLC

VARIABLES flow_edge, default_edge, call, graph, edges, vertices, init_view

vars == <<flow_edge, default_edge, call, graph, edges, vertices, init_view>>

subgraph_vars == <<graph, edges, vertices, init_view>>

-----------------------------------------------------------------------------
(* Bounds *)

WordBits == 3

MaxId == 1

MaxWeight == 1

MaxVertex == 1

MaxEdgeId == 1

MaxViewLen == 2

-----------------------------------------------------------------------------
(* Machine integers *)

Pow2(n) == 2 ^ n

Usize == 0 .. (Pow2(WordBits) - 1)

Isize == (0 - Pow2(WordBits - 1)) .. (Pow2(WordBits - 1) - 1)

\* `capacity as isize`: reinterpret the unsigned word as a signed one.
AsIsize(u) == IF u >= Pow2(WordBits - 1) THEN u - Pow2(WordBits) ELSE u

Ids == 0 .. MaxId

\* Magnitude<W>: a finite weight or an infinity.
Finite(w) == [tag |-> "Finite", val |-> w]

PosInfinite == [tag |-> "PosInfinite"]

\* weight.into(): a plain W becomes a finite magnitude.
Into(w) == Finite(w)

Weights == 0 .. MaxWeight

Magnitudes == {Finite(w) : w \in Weights} \cup {PosInfinite}

-----------------------------------------------------------------------------
(* Display of integers, as format!("{}") prints them *)

Digit(d) ==
    CASE d = 0 -> "0" [] d = 1 -> "1" [] d = 2 -> "2" [] d = 3 -> "3"
      [] d = 4 -> "4" [] d = 5 -> "5" [] d = 6 -> "6" [] d = 7 -> "7"
      [] d = 8 -> "8" [] d = 9 -> "9"

RECURSIVE DisplayNat(_)
DisplayNat(n) ==
    IF n < 10 THEN Digit(n) ELSE DisplayNat(n \div 10) \o Digit(n % 10)

Display(i) == IF i < 0 THEN "-" \o DisplayNat(0 - i) ELSE DisplayNat(i)

-----------------------------------------------------------------------------
(* Values returned by a call *)

None == [some |-> FALSE]

Some(v) == [some |-> TRUE, val |-> v]

Unit == [tag |-> "unit"]

Panic(msg) == [tag |-> "panic", msg |-> msg]

Err(msg) == [tag |-> "Err", msg |-> msg]

Ok(v) == [tag |-> "Ok", val |-> v]

\* The outcome of a &mut self method: the object as the call leaves it and
\* what the call returned (or the panic it raised).
Outcome(self, ret) == [self |-> self, ret |-> ret]

-----------------------------------------------------------------------------
(* DefaultEdge *)

DefaultEdge_init(src_id, dst_id, weight) ==
    [src_id |-> src_id, dst_id |-> dst_id, weight |-> weight]

DefaultEdge_get_weight(self) == self.weight

DefaultEdge_set_weight(self, weight) ==
    Outcome([self EXCEPT !.weight = weight], Unit)

DefaultEdge_get_src_id(self) == self.src_id

DefaultEdge_get_dst_id(self) == self.dst_id

DefaultEdge_from(src_id, dst_id, weight) ==
    DefaultEdge_init(src_id, dst_id, Into(weight))

-----------------------------------------------------------------------------
(* FlowEdge *)

InitWithMsg(flow, capacity) ==
    "Flow of the edge can not be greater than the capacity: "
        \o Display(flow) \o " > " \o Display(capacity)

SetFlowMsg(flow, capacity) ==
    "Flow of the edge can not be greater than the current capacity of the edge: "
        \o Display(flow) \o " > " \o Display(capacity)

SetCapacityMsg(capacity, flow) ==
    "Capacity of the edge can not be smaller than the current flow of the edge: "
        \o Display(capacity) \o " < " \o Display(flow)

\* Returns the new edge, or the panic that aborted the construction.
FlowEdge_init_with(src_id, dst_id, weight, capacity, flow) ==
    IF flow > AsIsize(capacity)
    THEN Panic(InitWithMsg(flow, capacity))
    ELSE Ok([src_id |-> src_id, dst_id |-> dst_id, weight |-> weight,
             capacity |-> capacity, flow |-> flow])

FlowEdge_get_flow(self) == self.flow

FlowEdge_get_capacity(self) == self.capacity

\* Mutation: the flow is stored before the guard runs.
FlowEdge_set_flow_store_first(self, flow) ==
    IF flow > AsIsize(FlowEdge_get_capacity(self))
    THEN Outcome([self EXCEPT !.flow = flow],
                 Panic(SetFlowMsg(flow, FlowEdge_get_capacity(self))))
    ELSE Outcome([self EXCEPT !.flow = flow], Unit)

FlowEdge_set_flow(self, flow) ==
    IF flow > AsIsize(FlowEdge_get_capacity(self))
    THEN Outcome(self, Panic(SetFlowMsg(flow, FlowEdge_get_capacity(self))))
    ELSE Outcome([self EXCEPT !.flow = flow], Unit)

\* Mutation: the guard is missing.
FlowEdge_set_capacity_unguarded(self, capacity) ==
    Outcome([self EXCEPT !.capacity = capacity], Unit)

FlowEdge_set_capacity(self, capacity) ==
    IF AsIsize(capacity) < FlowEdge_get_flow(self)
    THEN Outcome(self, Panic(SetCapacityMsg(capacity, FlowEdge_get_flow(self))))
    ELSE Outcome([self EXCEPT !.capacity = capacity], Unit)

FlowEdge_init(src_id, dst_id, weight) ==
    FlowEdge_init_with(src_id, dst_id, weight, 0, 0)

FlowEdge_get_weight(self) == self.weight

FlowEdge_set_weight(self, weight) ==
    Outcome([self EXCEPT !.weight = weight], Unit)

FlowEdge_get_src_id(self) == self.src_id

\* Mutation: the getter reads the wrong endpoint.
FlowEdge_get_dst_id_reads_src(self) == self.src_id

FlowEdge_get_dst_id(self) == self.dst_id

FlowEdge_from(src_id, dst_id, weight) ==
    FlowEdge_init(src_id, dst_id, Into(weight))

\* Returns Ok(edge) or Err(message); a panic of init_with would propagate.
FlowEdge_try_from(src_id, dst_id, weight, capacity, flow) ==
    IF flow > AsIsize(capacity)
    THEN Err(InitWithMsg(flow, capacity))
    ELSE FlowEdge_init_with(src_id, dst_id, Into(weight), capacity, flow)

-----------------------------------------------------------------------------
(* The edge program: one edge, a DefaultEdge or a FlowEdge, is constructed   *)
(* by one constructor call and then mutated through its setters, as each of *)
(* the unit tests of the two files does.  A setter that panics is caught    *)
(* and the program goes on with the edge as the call left it.  `call`       *)
(* records the last call, its arguments and what it returned.               *)

Call(op, args, ret) == [op |-> op, args |-> args, ret |-> ret]

\* No constructor has been called yet.
Unbuilt == [some |-> FALSE, unbuilt |-> TRUE]

\* A constructor that does not return an edge leaves the caller without one.
Constructed(ret) == IF ret.tag = "Ok" THEN Some(ret.val) ELSE None

\* Before any edge is constructed; no subgraph view is in play.
InitEdge ==
    /\ flow_edge = Unbuilt
    /\ default_edge = Unbuilt
    /\ call = Call("start", <<>>, Unit)
    /\ graph = [directed |-> FALSE, vertices |-> {}, edges |-> <<>>]
    /\ edges = <<>>
    /\ vertices = <<>>
    /\ init_view = [edges |-> <<>>, vertices |-> <<>>]

DefaultEdgeInit ==
    /\ default_edge = Unbuilt
    /\ flow_edge = Unbuilt
    /\ default_edge = Unbuilt
    /\ \E s \in Ids, d \in Ids, w \in Magnitudes :
        /\ default_edge' = Some(DefaultEdge_init(s, d, w))
        /\ call' = Call("DefaultEdge::init", <<s, d, w>>, Unit)
        /\ UNCHANGED <<flow_edge, subgraph_vars>>

DefaultEdgeFrom ==
    /\ default_edge = Unbuilt
    /\ flow_edge = Unbuilt
    /\ default_edge = Unbuilt
    /\ \E s \in Ids, d \in Ids, w \in Weights :
        /\ default_edge' = Some(DefaultEdge_from(s, d, w))
        /\ call' = Call("DefaultEdge::from", <<s, d, w>>, Unit)
        /\ UNCHANGED <<flow_edge, subgraph_vars>>

DefaultEdgeSetWeight ==
    /\ default_edge.some
    /\ \E w \in Magnitudes :
        LET out == DefaultEdge_set_weight(default_edge.val, w) IN
        /\ default_edge' = Some(out.self)
        /\ call' = Call("DefaultEdge::set_weight", <<w>>, out.ret)
        /\ UNCHANGED <<flow_edge, subgraph_vars>>

FlowEdgeInit ==
    /\ flow_edge = Unbuilt
    /\ default_edge = Unbuilt
    /\ \E s \in Ids, d \in Ids, w \in Magnitudes :
        LET ret == FlowEdge_init(s, d, w) IN
        /\ flow_edge' = Constructed(ret)
        /\ call' = Call("FlowEdge::init", <<s, d, w>>, ret)
        /\ UNCHANGED <<default_edge, subgraph_vars>>

FlowEdgeInitWith ==
    /\ flow_edge = Unbuilt
    /\ default_edge = Unbuilt
    /\ \E s \in Ids, d \in Ids, w \in Magnitudes, c \in Usize, f \in Isize :
        LET ret == FlowEdge_init_with(s, d, w, c, f) IN
        /\ flow_edge' = Constructed(ret)
        /\ call' = Call("FlowEdge::init_with", <<s, d, w, c, f>>, ret)
        /\ UNCHANGED <<default_edge, subgraph_vars>>

FlowEdgeFrom ==
    /\ flow_edge = Unbuilt
    /\ default_edge = Unbuilt
    /\ \E s \in Ids, d \in Ids, w \in Weights :
        LET ret == FlowEdge_from(s, d, w) IN
        /\ flow_edge' = Constructed(ret)
        /\ call' = Call("FlowEdge::from", <<s, d, w>>, ret)
        /\ UNCHANGED <<default_edge, subgraph_vars>>

FlowEdgeTryFrom ==
    /\ flow_edge = Unbuilt
    /\ default_edge = Unbuilt
    /\ \E s \in Ids, d \in Ids, w \in Weights, c \in Usize, f \in Isize :
        LET ret == FlowEdge_try_from(s, d, w, c, f) IN
        /\ flow_edge' = Constructed(ret)
        /\ call' = Call("FlowEdge::try_from", <<s, d, w, c, f>>, ret)
        /\ UNCHANGED <<default_edge, subgraph_vars>>

FlowEdgeSetFlow ==
    /\ flow_edge.some
    /\ \E f \in Isize :
        LET out == FlowEdge_set_flow(flow_edge.val, f) IN
        /\ flow_edge' = Some(out.self)
        /\ call' = Call("FlowEdge::set_flow", <<f>>, out.ret)
        /\ UNCHANGED <<default_edge, subgraph_vars>>

FlowEdgeSetCapacity ==
    /\ flow_edge.some
    /\ \E c \in Usize :
        LET out == FlowEdge_set_capacity(flow_edge.val, c) IN
        /\ flow_edge' = Some(out.self)
        /\ call' = Call("FlowEdge::set_capacity", <<c>>, out.ret)
        /\ UNCHANGED <<default_edge, subgraph_vars>>

FlowEdgeSetWeight ==
    /\ flow_edge.some
    /\ \E w \in Magnitudes :
        LET out == FlowEdge_set_weight(flow_edge.val, w) IN
        /\ flow_edge' = Some(out.self)
        /\ call' = Call("FlowEdge::set_weight", <<w>>, out.ret)
        /\ UNCHANGED <<default_edge, subgraph_vars>>

NextEdge ==
    \/ DefaultEdgeInit
    \/ DefaultEdgeFrom
    \/ DefaultEdgeSetWeight
    \/ FlowEdgeInit
    \/ FlowEdgeInitWith
    \/ FlowEdgeFrom
    \/ FlowEdgeTryFrom
    \/ FlowEdgeSetFlow
    \/ FlowEdgeSetCapacity
    \/ FlowEdgeSetWeight

SpecEdge == InitEdge /\ [][NextEdge]_vars

-----------------------------------------------------------------------------
(* Subgraph: a view over a parent graph.                                    *)
(* The parent graph is a directedness tag, a vertex set and its edges, each *)
(* edge id mapped to its (src, dst).  The view holds triples                *)
(* <<src_id, dst_id, edge>> where `edge` refers to a parent edge, named by  *)
(* its id, and a list of vertex ids.                                        *)

VertexIds == 0 .. MaxVertex

EdgeIds == 0 .. MaxEdgeId

\* &E: a reference to a parent edge; get_id() is all the view asks of it.
get_id(edge) == edge

\* What flat_map(..).collect() makes of the vectors the closure returns.
RECURSIVE Flatten(_)
Flatten(seqs) ==
    IF seqs = <<>> THEN <<>> ELSE Head(seqs) \o Flatten(Tail(seqs))

Subgraph_init(g, es, vs) == [graph |-> g, edges |-> es, vertices |-> vs]

\* Mutation: the filter also looks at the endpoints passed.
Subgraph_remove_edge_by_endpoints(self, src_id, dst_id, edge_id) ==
    [self EXCEPT !.edges =
        SelectSeq(self.edges,
                  LAMBDA t : ~(t[1] = src_id /\ t[2] = dst_id
                               /\ get_id(t[3]) = edge_id))]

Subgraph_remove_edge(self, src_id, dst_id, edge_id) ==
    [self EXCEPT !.edges =
        SelectSeq(self.edges, LAMBDA t : get_id(t[3]) # edge_id)]

\* Mutation: `||` in place of `&&` in the edge filter.
Subgraph_remove_vertex_or(self, vertex_id) ==
    [self EXCEPT
        !.edges = SelectSeq(self.edges,
                      LAMBDA t : t[1] # vertex_id \/ t[2] # vertex_id),
        !.vertices = SelectSeq(self.vertices, LAMBDA v : v # vertex_id)]

\* Mutation: the edge filter looks at the source only.
Subgraph_remove_vertex_src_only(self, vertex_id) ==
    [self EXCEPT
        !.edges = SelectSeq(self.edges, LAMBDA t : t[1] # vertex_id),
        !.vertices = SelectSeq(self.vertices, LAMBDA v : v # vertex_id)]

Subgraph_remove_vertex(self, vertex_id) ==
    [self EXCEPT
        !.edges = SelectSeq(self.edges,
                      LAMBDA t : t[1] # vertex_id /\ t[2] # vertex_id),
        !.vertices = SelectSeq(self.vertices, LAMBDA v : v # vertex_id)]

Subgraph_neighbors(self, src_id) ==
    LET from == SelectSeq(self.edges, LAMBDA t : t[1] = src_id)
    IN  [i \in 1 .. Len(from) |-> from[i][2]]

Subgraph_vertices(self) == self.vertices

Subgraph_edges_from(self, src_id) ==
    LET from == SelectSeq(self.edges, LAMBDA t : t[1] = src_id)
    IN  [i \in 1 .. Len(from) |-> <<from[i][2], from[i][3]>>]

Subgraph_edges_between(self, src_id, dst_id) ==
    LET between == SelectSeq(self.edges,
                             LAMBDA t : t[1] = src_id /\ t[2] = dst_id)
    IN  [i \in 1 .. Len(between) |-> between[i][3]]

Subgraph_edge_between(self, src_id, dst_id, edge_id) ==
    LET found == SelectSeq(Subgraph_edges_between(self, src_id, dst_id),
                           LAMBDA e : get_id(e) = edge_id)
    IN  IF found = <<>> THEN None ELSE Some(Head(found))

Subgraph_edge(self, edge_id) ==
    LET found == SelectSeq(self.edges, LAMBDA t : get_id(t[3]) = edge_id)
    IN  IF found = <<>> THEN None ELSE Some(Head(found)[3])

Subgraph_as_directed_edges(self) ==
    Flatten([i \in 1 .. Len(self.edges) |->
                << <<self.edges[i][1], self.edges[i][2], self.edges[i][3]>>,
                   <<self.edges[i][2], self.edges[i][1], self.edges[i][3]>> >>])

Subgraph_has_any_edge(self, src_id, dst_id) ==
    Subgraph_edges_between(self, src_id, dst_id) # <<>>

Subgraph_edges(self) == self.edges

Subgraph_edges_count(self) == Len(self.edges)

-----------------------------------------------------------------------------
(* The subgraph program: a view is initialised over a parent graph, then    *)
(* vertices and edges are removed from it.                                  *)

\* The view as the struct holds it.
View == [graph |-> graph, edges |-> edges, vertices |-> vertices]

Range(seq) == {seq[i] : i \in 1 .. Len(seq)}

SeqsUpTo(S, n) == UNION {[1 .. k -> S] : k \in 0 .. n}

\* A vertex list as a caller collects it from the parent's vertices: each id
\* once, in ascending order.
Ascending(seq) == \A i, j \in 1 .. Len(seq) : i < j => seq[i] < seq[j]

\* The parent graphs the views are cut from: directed or undirected, over
\* all the vertex ids, edge e running from vertex e (modulo the vertex
\* count) to the next vertex; edge 0 may be a loop on vertex 0 instead.
ParentGraphs ==
    {[directed |-> dir, vertices |-> VertexIds,
      edges |-> [e \in EdgeIds |->
                    <<e % (MaxVertex + 1),
                      (e + (IF e = 0 THEN stride ELSE 1)) % (MaxVertex + 1)>>]] :
        dir \in BOOLEAN, stride \in {0, 1}}

\* The triples a caller can hand to Subgraph::init for a parent edge: the
\* edge as the parent stores it and, for an undirected parent, its mirror.
TriplesOf(g) ==
    {<<g.edges[e][1], g.edges[e][2], e>> : e \in EdgeIds}
        \cup (IF g.directed THEN {}
              ELSE {<<g.edges[e][2], g.edges[e][1], e>> : e \in EdgeIds})

InitSubgraph ==
    /\ flow_edge = Unbuilt
    /\ default_edge = Unbuilt
    /\ graph \in ParentGraphs
    /\ edges \in SeqsUpTo(TriplesOf(graph), MaxViewLen)
    /\ vertices \in {vs \in SeqsUpTo(VertexIds, MaxViewLen) : Ascending(vs)}
    /\ init_view = [edges |-> edges, vertices |-> vertices]
    /\ call = Call("Subgraph::init", <<>>, Unit)

\* `call` keeps of remove_edge's arguments the edge id and whether
\* (src_id, dst_id, edge_id) named a triple of the view, and notes how many
\* triples the call removed.
RemoveEdge ==
    \E s \in VertexIds, d \in VertexIds, e \in 0 .. (MaxEdgeId + 1) :
        LET self == Subgraph_remove_edge(View, s, d, e) IN
        /\ graph' = self.graph
        /\ edges' = self.edges
        /\ vertices' = self.vertices
        /\ call' = Call("Subgraph::remove_edge",
                        [edge_id |-> e,
                         named |-> <<s, d, e>> \in Range(edges),
                         removed |-> Len(edges) - Len(self.edges)], Unit)
        /\ UNCHANGED <<flow_edge, default_edge, init_view>>

RemoveVertex ==
    \E v \in VertexIds :
        LET self == Subgraph_remove_vertex(View, v) IN
        /\ graph' = self.graph
        /\ edges' = self.edges
        /\ vertices' = self.vertices
        /\ call' = Call("Subgraph::remove_vertex", <<v>>, Unit)
        /\ UNCHANGED <<flow_edge, default_edge, init_view>>

NextSubgraph ==
    \/ RemoveEdge
    \/ RemoveVertex

SpecSubgraph == InitSubgraph /\ [][NextSubgraph]_vars

-----------------------------------------------------------------------------
(* Properties of the edge program (SpecEdge)                                *)

FlowSetters ==
    {"FlowEdge::set_flow", "FlowEdge::set_capacity", "FlowEdge::set_weight"}

FlowConstructors ==
    {"FlowEdge::init", "FlowEdge::init_with", "FlowEdge::from",
     "FlowEdge::try_from"}

DefaultConstructors == {"DefaultEdge::init", "DefaultEdge::from"}

\* C1: whenever a FlowEdge exists - however it was constructed and whatever
\* setters have run on it since, failed calls included - its flow is at most
\* its capacity, both taken as mathematical integers.
C1_FlowAtMostCapacity ==
    flow_edge.some =>
        FlowEdge_get_flow(flow_edge.val) <= FlowEdge_get_capacity(flow_edge.val)

\* A positive flow was accepted, which needs a capacity raised beforehand.
C1_Witness ==
    /\ flow_edge.some
    /\ call.op = "FlowEdge::set_flow"
    /\ call.ret = Unit
    /\ FlowEdge_get_flow(flow_edge.val) > 0
    /\ FlowEdge_get_flow(flow_edge.val) = FlowEdge_get_capacity(flow_edge.val)

\* C2: set_flow(f) with f above the capacity, and set_capacity(c) with c below
\* the flow, fail, and the edge is after the call what it was before it.
C2_RejectedMutationKeepsState ==
    [][ /\ (/\ call'.op = "FlowEdge::set_flow"
            /\ call'.args[1] > FlowEdge_get_capacity(flow_edge.val))
           => (call'.ret.tag = "panic" /\ flow_edge' = flow_edge)
        /\ (/\ call'.op = "FlowEdge::set_capacity"
            /\ call'.args[1] < FlowEdge_get_flow(flow_edge.val))
           => (call'.ret.tag = "panic" /\ flow_edge' = flow_edge)
      ]_vars

\* set_flow was rejected on an edge whose flow differs from the rejected one.
C2_Witness ==
    /\ flow_edge.some
    /\ call.op = "FlowEdge::set_flow"
    /\ call.ret.tag = "panic"
    /\ call.args[1] > FlowEdge_get_capacity(flow_edge.val)
    /\ FlowEdge_get_flow(flow_edge.val) # call.args[1]
    /\ FlowEdge_get_capacity(flow_edge.val) > 0

\* C3: with flow > capacity init_with panics with a message naming
\* "<flow> > <capacity>" and try_from returns Err with the same message and no
\* edge; with flow <= capacity try_from returns Ok with an edge whose getters
\* return the src, dst, weight, capacity and flow given.
C3_ConstructionOutcome ==
    /\ (/\ call.op = "FlowEdge::init_with"
        /\ call.args[5] > call.args[4])
       => /\ call.ret = Panic(InitWithMsg(call.args[5], call.args[4]))
          /\ ~flow_edge.some
    /\ (/\ call.op = "FlowEdge::try_from"
        /\ call.args[5] > call.args[4])
       => /\ call.ret = Err(InitWithMsg(call.args[5], call.args[4]))
          /\ ~flow_edge.some
    /\ (/\ call.op = "FlowEdge::try_from"
        /\ call.args[5] <= call.args[4])
       => /\ call.ret.tag = "Ok"
          /\ flow_edge.some
          /\ FlowEdge_get_src_id(flow_edge.val) = call.args[1]
          /\ FlowEdge_get_dst_id(flow_edge.val) = call.args[2]
          /\ FlowEdge_get_weight(flow_edge.val) = Finite(call.args[3])
          /\ FlowEdge_get_capacity(flow_edge.val) = call.args[4]
          /\ FlowEdge_get_flow(flow_edge.val) = call.args[5]

\* C5: the endpoints of an edge are those given to its constructor, no setter
\* changes them, and each setter changes its own field and no other.
C5_SettersTouchOwnField ==
    [][ /\ (call'.op \in FlowConstructors /\ flow_edge'.some)
           => /\ FlowEdge_get_src_id(flow_edge'.val) = call'.args[1]
              /\ FlowEdge_get_dst_id(flow_edge'.val) = call'.args[2]
        /\ (call'.op \in DefaultConstructors)
           => /\ DefaultEdge_get_src_id(default_edge'.val) = call'.args[1]
              /\ DefaultEdge_get_dst_id(default_edge'.val) = call'.args[2]
        /\ (call'.op \in FlowSetters)
           => /\ FlowEdge_get_src_id(flow_edge'.val)
                    = FlowEdge_get_src_id(flow_edge.val)
              /\ FlowEdge_get_dst_id(flow_edge'.val)
                    = FlowEdge_get_dst_id(flow_edge.val)
              /\ default_edge' = default_edge
        /\ (call'.op = "FlowEdge::set_weight")
           => /\ flow_edge'.val = [flow_edge.val EXCEPT !.weight = call'.args[1]]
              /\ FlowEdge_get_weight(flow_edge'.val) = call'.args[1]
        /\ (call'.op = "FlowEdge::set_flow")
           => \E f \in Isize :
                  flow_edge'.val = [flow_edge.val EXCEPT !.flow = f]
        /\ (call'.op = "FlowEdge::set_flow" /\ call'.ret = Unit)
           => FlowEdge_get_flow(flow_edge'.val) = call'.args[1]
        /\ (call'.op = "FlowEdge::set_capacity")
           => \E c \in Usize :
                  flow_edge'.val = [flow_edge.val EXCEPT !.capacity = c]
        /\ (call'.op = "FlowEdge::set_capacity" /\ call'.ret = Unit)
           => FlowEdge_get_capacity(flow_edge'.val) = call'.args[1]
        /\ (call'.op = "DefaultEdge::set_weight")
           => /\ default_edge'.val
                    = [default_edge.val EXCEPT !.weight = call'.args[1]]
              /\ DefaultEdge_get_weight(default_edge'.val) = call'.args[1]
              /\ flow_edge' = flow_edge
      ]_vars

\* A capacity was set on a flow edge whose two endpoints differ and whose
\* weight, flow and endpoints are not the new capacity's value.
C5_Witness ==
    /\ flow_edge.some
    /\ call.op = "FlowEdge::set_capacity"
    /\ call.ret = Unit
    /\ FlowEdge_get_capacity(flow_edge.val) = call.args[1]
    /\ FlowEdge_get_src_id(flow_edge.val) # FlowEdge_get_dst_id(flow_edge.val)
    /\ FlowEdge_get_flow(flow_edge.val) # call.args[1]

\* C6: over the whole range of usize and isize, set_capacity(c) fails only if
\* c is below the current flow, set_flow(f) fails only if f is above the
\* current capacity, and try_from returns Ok whenever flow <= capacity.
C6_GuardsRejectOnlyViolations ==
    [][ /\ (call'.op = "FlowEdge::set_capacity" /\ call'.ret.tag = "panic")
           => call'.args[1] < FlowEdge_get_flow(flow_edge.val)
        /\ (call'.op = "FlowEdge::set_flow" /\ call'.ret.tag = "panic")
           => call'.args[1] > FlowEdge_get_capacity(flow_edge.val)
        /\ (call'.op = "FlowEdge::try_from" /\ call'.args[5] <= call'.args[4])
           => call'.ret.tag = "Ok"
      ]_vars

-----------------------------------------------------------------------------
(* Properties of the subgraph program (SpecSubgraph)                        *)

Count(seq, x) == Cardinality({i \in 1 .. Len(seq) : seq[i] = x})

\* sub can be had from seq by deleting elements.
RECURSIVE IsSubseq(_, _)
IsSubseq(sub, seq) ==
    IF sub = <<>> THEN TRUE
    ELSE IF seq = <<>> THEN FALSE
    ELSE IF Head(sub) = Head(seq) THEN IsSubseq(Tail(sub), Tail(seq))
    ELSE IsSubseq(sub, Tail(seq))

\* after is before with exactly the elements in Gone deleted.
Deleted(before, after, Gone) ==
    /\ IsSubseq(after, before)
    /\ \A x \in Range(before) :
           Count(after, x) = IF x \in Gone THEN 0 ELSE Count(before, x)

Touching(es, v) == {t \in Range(es) : t[1] = v \/ t[2] = v}

WithId(es, e) == {t \in Range(es) : get_id(t[3]) = e}

\* Both endpoints of every triple are in the vertex list.
Closed(es, vs) == \A t \in Range(es) : t[1] \in Range(vs) /\ t[2] \in Range(vs)

C7_QueryableFromEitherEndpoint ==
    /\ ~graph.directed =>
           \A t \in Range(edges) :
               /\ t[1] \in Range(Subgraph_neighbors(View, t[2]))
               /\ t[2] \in Range(Subgraph_neighbors(View, t[1]))
               /\ <<t[1], t[3]>> \in Range(Subgraph_edges_from(View, t[2]))
               /\ Subgraph_has_any_edge(View, t[1], t[2])
               /\ Subgraph_has_any_edge(View, t[2], t[1])
    /\ graph.directed =>
           \A v \in VertexIds :
               Range(Subgraph_neighbors(View, v))
                   = {t[2] : t \in {u \in Range(edges) : u[1] = v}}

\* C8: as_directed_edges lists every edge of an undirected parent twice, once
\* per direction, and every edge of a directed parent once, as stored, so
\* that for a directed view it equals edges().
C8_AsDirectedEdges ==
    /\ ~graph.directed =>
           /\ Len(Subgraph_as_directed_edges(View)) = 2 * Len(edges)
           /\ \A t \in Range(edges) :
                  /\ t \in Range(Subgraph_as_directed_edges(View))
                  /\ <<t[2], t[1], t[3]>>
                         \in Range(Subgraph_as_directed_edges(View))
    /\ graph.directed =>
           Subgraph_as_directed_edges(View) = Subgraph_edges(View)

\* C9: remove_edge(src, dst, id) takes out the triples with that id, whatever
\* src and dst are: afterwards edge(id) is None, the triples with other ids
\* and the vertex list are as before, and an id the view does not hold
\* changes nothing; the call never fails.
C9_RemoveEdgeById ==
    [][ (call'.op = "Subgraph::remove_edge")
           => LET e == call'.args.edge_id IN
              /\ call'.ret = Unit
              /\ Subgraph_edge([View EXCEPT !.edges = edges'], e) = None
              /\ WithId(edges', e) = {}
              /\ Deleted(edges, edges', WithId(edges, e))
              /\ vertices' = vertices
              /\ graph' = graph
              /\ (WithId(edges, e) = {}) => (edges' = edges)
      ]_vars

\* remove_edge took a triple out although the src and dst passed were not
\* that triple's, and left a triple with another id.
C9_Witness ==
    /\ call.op = "Subgraph::remove_edge"
    /\ ~call.args.named
    /\ call.args.removed > 0
    /\ Len(edges) > 0

\* C10: a view initialised with both endpoints of every triple in its vertex
\* list keeps that property under remove_vertex and remove_edge, holds only
\* triples and vertices it was initialised with, and edges_count() is the
\* number of triples it holds.
C10_ViewStaysClosed ==
    Closed(init_view.edges, init_view.vertices)
        => /\ Closed(Subgraph_edges(View), Subgraph_vertices(View))
           /\ Range(Subgraph_edges(View)) \subseteq Range(init_view.edges)
           /\ Range(Subgraph_vertices(View)) \subseteq Range(init_view.vertices)
           /\ IsSubseq(edges, init_view.edges)
           /\ IsSubseq(vertices, init_view.vertices)
           /\ Subgraph_edges_count(View) = Len(Subgraph_edges(View))

\* A closed view lost a vertex and a triple touching it and still holds a
\* triple.
C10_Witness ==
    /\ Closed(init_view.edges, init_view.vertices)
    /\ call.op = "Subgraph::remove_vertex"
    /\ Len(vertices) < Len(init_view.vertices)
    /\ Len(edges) < Len(init_view.edges)
    /\ Subgraph_edges_count(View) > 0

====
